---- MODULE Spec2Model ----
(***************************************************************************)
(* A model of skrul/songs:                                                 *)
(*   - ascii_to_latex.py: convert_ascii_to_latex (the chord scan and the   *)
(*     line merger), has_chords and process_section (the segmenter);       *)
(*   - songs.py: the upload-all and match commands and what they read and  *)
(*     write.                                                              *)
(* A line of text is a sequence of one-character strings; columns are      *)
(* counted from 0 as in the Python source, so column c of a line s is      *)
(* s[c + 1].                                                               *)
(***************************************************************************)
EXTENDS Integers, Sequences, FiniteSets, TLC

\* ------------------------------------------------------------------ bounds

\* Longest chord line and longest lyric line drawn as input of the merger.
MaxChordLen == 4
MaxLyricLen == 3

\* Longest chart given to the segmenter, and the length up to which every
\* line is one of its possible lines.
MaxLines == 3
MaxLineLen == 1

\* Most upload units under songs/.
MaxUnits == 2

\* Longest line has_chords is called on by itself.
MaxHeuristicLen == 4

\* Most files in the Drive listing that the match command fetches.
MaxDriveFiles == 2

\* ------------------------------------------------------------- characters

\* The characters str.strip(), str.rstrip() and str.split() treat as
\* whitespace (those of them a line of the model can hold).
PyWhitespace == {" ", "\t", "\n", "\r", "\f"}

\* The two characters the scan and the merger test for: [' ', '\t'].
SpaceOrTab == {" ", "\t"}

\* Characters of the chord lines and of the lyric lines drawn as inputs.
ChordAlphabet == {" ", "\t", "G"}
LyricAlphabet == {" ", "\t", "a", "\f"}

\* All lines over an alphabet, of length 0..n.
LinesUpTo(alphabet, n) == UNION {[1..k -> alphabet] : k \in 0..n}

\* ------------------------------------------------------- string functions

\* not s.strip(): the line is empty or holds only whitespace.
IsBlank(s) == \A k \in 1..Len(s) : s[k] \in PyWhitespace

\* s.rstrip()
RECURSIVE RStrip(_)
RStrip(s) ==
    IF s # <<>> /\ s[Len(s)] \in PyWhitespace
    THEN RStrip(SubSeq(s, 1, Len(s) - 1))
    ELSE s

\* Mutant of LJust: a line is never padded.
LJustNoPad(s, n) == s

\* s.ljust(n): s right-padded with spaces to length n, s itself if longer.
LJust(s, n) == IF Len(s) >= n THEN s ELSE s \o [k \in 1..(n - Len(s)) |-> " "]

\* max(a, b)
Max(a, b) == IF a >= b THEN a ELSE b

\* ''.join(parts): the parts concatenated in order (by halves).
RECURSIVE Join(_)
Join(parts) ==
    IF parts = <<>> THEN <<>>
    ELSE IF Len(parts) = 1 THEN parts[1]
    ELSE LET h == Len(parts) \div 2
         IN Join(SubSeq(parts, 1, h)) \o Join(SubSeq(parts, h + 1, Len(parts)))

\* Mutants of the markers: the spaced one without its trailing space, the
\* bare one with a trailing space.
MarkerSpacedNoTrail(chord) == <<" ", "^", "{">> \o chord \o <<"}">>
MarkerBareTrailing(chord) == <<"^", "{">> \o chord \o <<"}", " ">>

\* f' ^{{{chord}}} ', f'^{{{chord}}}' and f' ^{{{chord}}}'
MarkerSpaced(chord) == <<" ", "^", "{">> \o chord \o <<"}", " ">>
MarkerBare(chord) == <<"^", "{">> \o chord \o <<"}">>
MarkerLead(chord) == <<" ", "^", "{">> \o chord \o <<"}">>

\* ------------------------------------------------------------- chord scan

\* Mutant of ScanChar: the start column is not reset when a token ends.
ScanCharKeepsStart(st, pos, char) ==
    IF char \notin SpaceOrTab
    THEN [st EXCEPT !.chord_start = IF st.chord_start = -1 THEN pos ELSE @,
                    !.current_chord = Append(@, char)]
    ELSE IF st.current_chord # <<>>
         THEN [chord_positions |-> Append(st.chord_positions,
                                          <<st.chord_start, st.current_chord>>),
               current_chord |-> <<>>,
               chord_start |-> st.chord_start]
         ELSE st

\* One iteration of the scan loop on the character at column pos. st is
\* the loop's state: the tokens emitted so far, the token being read and
\* its start column (-1 when none is open).
ScanChar(st, pos, char) ==
    IF char \notin SpaceOrTab
    THEN [st EXCEPT !.chord_start = IF st.chord_start = -1 THEN pos ELSE @,
                    !.current_chord = Append(@, char)]
    ELSE IF st.current_chord # <<>>
         THEN [chord_positions |-> Append(st.chord_positions,
                                          <<st.chord_start, st.current_chord>>),
               current_chord |-> <<>>,
               chord_start |-> -1]
         ELSE st

\* for pos, char in enumerate(chord_line), from column pos on. (The test
\* st2 = st2 only makes TLC evaluate an iteration before the next one.)
RECURSIVE ScanLoop(_, _, _)
ScanLoop(line, pos, st) ==
    IF pos >= Len(line) THEN st
    ELSE LET st2 == ScanChar(st, pos, line[pos + 1])
         IN IF st2 = st2 THEN ScanLoop(line, pos + 1, st2) ELSE st2

\* The scan of a whole chord line, with the token still open at the end of
\* the line flushed: the list of (start column, text) in emission order.
ScanChords(line) ==
    LET st == ScanLoop(line, 0, [chord_positions |-> <<>>,
                                 current_chord |-> <<>>,
                                 chord_start |-> -1])
    IN IF st.current_chord # <<>>
       THEN Append(st.chord_positions, <<st.chord_start, st.current_chord>>)
       ELSE st.chord_positions

\* Python's order on lists of characters, by code point.
CharCode(c) ==
    CASE c = "\t" -> 9 [] c = "\n" -> 10 [] c = "\f" -> 12 [] c = "\r" -> 13
      [] c = " " -> 32 [] c = "A" -> 65 [] c = "G" -> 71 [] c = "a" -> 97
      [] c = "h" -> 104 [] c = "m" -> 109 [] OTHER -> 127

RECURSIVE TextLess(_, _)
TextLess(s, t) ==
    IF t = <<>> THEN FALSE
    ELSE IF s = <<>> THEN TRUE
    ELSE IF CharCode(Head(s)) # CharCode(Head(t))
         THEN CharCode(Head(s)) < CharCode(Head(t))
         ELSE TextLess(Tail(s), Tail(t))

\* The order of list.sort() on (start, text) tuples.
TupleLess(p, q) == p[1] < q[1] \/ (p[1] = q[1] /\ TextLess(p[2], q[2]))

RECURSIVE InsertSorted(_, _)
InsertSorted(sorted, p) ==
    IF sorted = <<>> THEN <<p>>
    ELSE IF TupleLess(p, Head(sorted)) THEN <<p>> \o sorted
    ELSE <<Head(sorted)>> \o InsertSorted(Tail(sorted), p)

\* chord_positions.sort(): a stable sort by (start, text).
RECURSIVE SortPositions(_)
SortPositions(ps) ==
    IF ps = <<>> THEN <<>>
    ELSE InsertSorted(SortPositions(SubSeq(ps, 1, Len(ps) - 1)), ps[Len(ps)])

\* ------------------------------------------------------------ line merger

\* The inner while loop at one column: every chord that starts at pos is
\* emitted, spaced when the lyric character is a space or a tab. m is the
\* loop's state: chord_idx, result_chars (the list of pieces) and skip_char.
RECURSIVE InsertAt(_, _, _, _)
InsertAt(m, cps, pos, char) ==
    IF m.chord_idx < Len(cps) /\ cps[m.chord_idx + 1][1] = pos
    THEN LET chord == cps[m.chord_idx + 1][2]
         IN InsertAt(
              IF char \in SpaceOrTab
              THEN [chord_idx |-> m.chord_idx + 1,
                    result_chars |-> Append(m.result_chars, MarkerSpaced(chord)),
                    skip_char |-> TRUE]
              ELSE [chord_idx |-> m.chord_idx + 1,
                    result_chars |-> Append(m.result_chars, MarkerBare(chord)),
                    skip_char |-> m.skip_char],
              cps, pos, char)
    ELSE m

\* Mutant of MergeColumn: the lyric character is appended even when a chord
\* replaced it.
MergeColumnKeepsChar(m, cps, pos, char) ==
    LET w == InsertAt(m, cps, pos, char)
    IN [chord_idx |-> w.chord_idx,
        result_chars |-> Append(w.result_chars, <<char>>),
        skip_char |-> FALSE]

\* One iteration of the loop over the columns of the padded lyric line.
MergeColumn(m, cps, pos, char) ==
    LET w == InsertAt(m, cps, pos, char)
    IN [chord_idx |-> w.chord_idx,
        result_chars |-> IF ~w.skip_char THEN Append(w.result_chars, <<char>>)
                         ELSE w.result_chars,
        skip_char |-> FALSE]

\* for pos, char in enumerate(lyric_line), from column pos on. (The test
\* m2 = m2 only makes TLC evaluate an iteration before the next one.)
RECURSIVE MergeLoop(_, _, _, _)
MergeLoop(lyric, cps, pos, m) ==
    IF pos >= Len(lyric) THEN m
    ELSE LET m2 == MergeColumn(m, cps, pos, lyric[pos + 1])
         IN IF m2 = m2 THEN MergeLoop(lyric, cps, pos + 1, m2) ELSE m2

\* The loop over the chords left when the columns are used up.
RECURSIVE RemainingLoop(_, _)
RemainingLoop(m, cps) ==
    IF m.chord_idx < Len(cps)
    THEN RemainingLoop([m EXCEPT !.chord_idx = @ + 1,
                                 !.result_chars =
                                     Append(@, MarkerLead(cps[m.chord_idx + 1][2]))],
                       cps)
    ELSE m

\* Mutants of BlankReturn: the lyric line trimmed; the chord line.
BlankReturnTrimmed(chord, lyric) == RStrip(lyric)
BlankReturnChord(chord, lyric) == IF IsBlank(lyric) THEN chord ELSE lyric

\* What the function returns when either line is blank.
BlankReturn(chord, lyric) == lyric

\* What the function returns from the pieces: ''.join(result_chars).rstrip()
FinalReturn(pieces) == RStrip(Join(pieces))

\* convert_ascii_to_latex(chord_line, lyric_line) as a function.
convert_ascii_to_latex(chord, lyric) ==
    IF IsBlank(chord) \/ IsBlank(lyric) THEN BlankReturn(chord, lyric)
    ELSE LET max_len == Max(Len(chord), Len(lyric))
             cps == SortPositions(ScanChords(LJust(chord, max_len)))
             m0 == [chord_idx |-> 0, result_chars |-> <<>>, skip_char |-> FALSE]
             m1 == MergeLoop(LJust(lyric, max_len), cps, 0, m0)
         IN FinalReturn(RemainingLoop(m1, cps).result_chars)

\* ------------------------------------------------ chord-line heuristic

\* line.split(): the maximal runs of non-whitespace characters, in order.
\* w is the word being read.
RECURSIVE SplitFrom(_, _, _)
SplitFrom(line, k, w) ==
    IF k > Len(line) THEN (IF w = <<>> THEN <<>> ELSE <<w>>)
    ELSE IF line[k] \in PyWhitespace
         THEN (IF w = <<>> THEN <<>> ELSE <<w>>) \o SplitFrom(line, k + 1, <<>>)
         ELSE SplitFrom(line, k + 1, Append(w, line[k]))

Split(line) == SplitFrom(line, 1, <<>>)

\* Mutant of Contains: the word has to be the chord.
ContainsWholeWord(word, chord) == word = chord

\* chord in word: chord is a substring of word.
Contains(word, chord) ==
    \E p \in 0..(Len(word) - Len(chord)) : SubSeq(word, p + 1, p + Len(chord)) = chord

common_chords ==
    << <<"A">>, <<"B">>, <<"C">>, <<"D">>, <<"E">>, <<"F">>, <<"G">>,
       <<"A", "m">>, <<"B", "m">>, <<"C", "m">>, <<"D", "m">>, <<"E", "m">>,
       <<"F", "m">>, <<"G", "m">> >>

\* has_chords(line): chord_count > 0 and chord_count >= len(words) * 0.5
has_chords(line) ==
    LET words == Split(line)
        chord_count ==
            Cardinality({k \in 1..Len(words) :
                \E c \in 1..Len(common_chords) : Contains(words[k], common_chords[c])})
    IN chord_count > 0 /\ 2 * chord_count >= Len(words)

\* Mutant of IsChordLyricPair: the next line is not asked to be a lyric line.
IsChordLyricPairAnyNext(line, next_line) == has_chords(line) /\ next_line # <<>>

\* The test of process_section on a line and the line after it:
\* has_chords(line) and next_line and not has_chords(next_line)
IsChordLyricPair(line, next_line) ==
    has_chords(line) /\ next_line # <<>> /\ ~has_chords(next_line)

\* Mutant of AfterPair: the cursor moves past the chord line only.
AfterPairByOne(i) == i + 1

\* i += 2  (skip both lines)
AfterPair(i) == i + 2

\* --------------------------------------------------- the merger, by steps

\* The sample call of the module's __main__ block.
sample_chord_line ==
    <<"G", "m", " ", " ", " ", " ", " ", " ", " ", " ", " ", " ", " ", " ",
    " ", " ", " ", "B", "b">>
sample_lyric_line ==
    <<" ", " ", " ", "S", "l", "o", "w", " ", "d", "o", "w", "n", " ", "y",
    "o", "u", " ", "c", "r", "a", "z", "y", " ", "c", "h", "i", "l", "d">>

VARIABLES
    arg_chord, arg_lyric,   \* the arguments of the call of convert_ascii_to_latex
    chord_line, lyric_line, \* its two locals of these names (padded once past the blank check)
    pc,                     \* where the call stands
    chord_positions,        \* the list of (start column, text)
    chord_idx,              \* index of the next chord to insert
    result_chars,           \* the list of pieces of the output
    ret                     \* the returned line, once pc = "done"

VARIABLES
    lines,                  \* the argument of the call of process_section
    i,                      \* its cursor (lines before it are consumed)
    result,                 \* its list of output lines
    spans,                  \* history: for each output line, <<first input line, how many>>
    section_pc              \* "loop", then "done" once result is returned

VARIABLES
    n_units,                \* the units of songs/ are 1..n_units, in sorted order
    tex_mtimes,             \* per unit, the modification times of its .tex files
    body_mtime,             \* per unit, <<that of its Body file>>, or NoBody
    manifest_file,          \* manifest.json: unit -> [uuid, uploaded_at]
    manifest_start,         \* history: manifest.json when the command started
    drive,                  \* the ids of the files in the Drive folder
    manifest,               \* the command's manifest dict
    to_upload,              \* its list of (unit, reason)
    idx,                    \* how many entries of to_upload the loop has taken
    failed,                 \* its list of failed units
    attempted,              \* history: the units upload_unit was called for
    clock,                  \* the time now
    next_id,                \* the id Drive gives to the next file created
    last_outcome,           \* history: how the latest round of the upload loop went
    up_pc                   \* where the command stands

VARIABLES
    arg_line,               \* the argument of a call of has_chords
    has_chords_ret,         \* what the call returned
    heur_pc                 \* "call", then "done" once it has returned

VARIABLES
    unit_meta,              \* per unit, what cmd_match reads of it: title in the .tex, key in its name
    drive_files,            \* the list list_drive_files returns
    drive_by_key,           \* cmd_match's lookup from (title, artist, key) to a Drive file
    drive_ids,              \* its set of the ids of the listed files
    stale_manifest,         \* its list of units whose Drive file is gone
    matched,                \* its list of (unit, uuid) newly matched
    match_pc                \* where cmd_match stands

mergeVars == <<arg_chord, arg_lyric, chord_line, lyric_line, pc,
               chord_positions, chord_idx, result_chars, ret>>

sectionVars == <<lines, i, result, spans, section_pc>>

uploadVars == <<n_units, tex_mtimes, body_mtime, manifest_file, manifest_start,
                drive, manifest, to_upload, idx, failed, attempted, clock,
                next_id, last_outcome, up_pc>>

heurVars == <<arg_line, has_chords_ret, heur_pc>>

matchVars == <<unit_meta, drive_files, drive_by_key, drive_ids, stale_manifest,
               matched, match_pc>>

vars == <<mergeVars, sectionVars, uploadVars, heurVars, matchVars>>

\* No call of convert_ascii_to_latex by steps, no call of process_section.
MergeIdle ==
    /\ arg_chord = <<>> /\ arg_lyric = <<>>
    /\ chord_line = <<>> /\ lyric_line = <<>>
    /\ pc = "idle"
    /\ chord_positions = <<>> /\ chord_idx = 0 /\ result_chars = <<>> /\ ret = <<>>

SectionIdle ==
    /\ lines = <<>> /\ i = 0 /\ result = <<>> /\ spans = <<>>
    /\ section_pc = "idle"

\* No run of a command of songs.py.
UploadIdle ==
    /\ n_units = 0 /\ tex_mtimes = <<>> /\ body_mtime = <<>>
    /\ manifest_file = <<>> /\ manifest_start = <<>> /\ drive = {}
    /\ manifest = <<>> /\ to_upload = <<>> /\ idx = 0 /\ failed = <<>>
    /\ attempted = <<>> /\ clock = 0 /\ next_id = 0
    /\ last_outcome = "none"
    /\ up_pc = "idle"

\* No call of has_chords on its own.
HasChordsIdle ==
    /\ arg_line = <<>> /\ has_chords_ret = FALSE
    /\ heur_pc = "idle"

\* Nothing of cmd_match has run.
MatchIdle ==
    /\ unit_meta = <<>> /\ drive_files = <<>> /\ drive_by_key = <<>>
    /\ drive_ids = {} /\ stale_manifest = <<>> /\ matched = <<>>
    /\ match_pc = "idle"

\* The calls of the merger that are checked: every pair of bounded lines,
\* and the sample call.
MergeInputs ==
    (LinesUpTo(ChordAlphabet, MaxChordLen) \X LinesUpTo(LyricAlphabet, MaxLyricLen))
        \cup {<<sample_chord_line, sample_lyric_line>>}

InitMerge ==
    /\ \E in \in MergeInputs : arg_chord = in[1] /\ arg_lyric = in[2]
    /\ chord_line = arg_chord
    /\ lyric_line = arg_lyric
    /\ pc = "call"
    /\ chord_positions = <<>>
    /\ chord_idx = 0
    /\ result_chars = <<>>
    /\ ret = <<>>
    /\ SectionIdle
    /\ UploadIdle
    /\ HasChordsIdle
    /\ MatchIdle

\* if not chord_line.strip() or not lyric_line.strip(): return lyric_line
ReturnBlank ==
    /\ pc = "call"
    /\ IsBlank(chord_line) \/ IsBlank(lyric_line)
    /\ ret' = BlankReturn(chord_line, lyric_line)
    /\ pc' = "done"
    /\ UNCHANGED <<arg_chord, arg_lyric, chord_line, lyric_line,
                   chord_positions, chord_idx, result_chars>>
    /\ UNCHANGED <<sectionVars, uploadVars, heurVars, matchVars>>

\* Pad lines to same length
Pad ==
    /\ pc = "call"
    /\ ~(IsBlank(chord_line) \/ IsBlank(lyric_line))
    /\ LET max_len == Max(Len(chord_line), Len(lyric_line))
       IN /\ chord_line' = LJust(chord_line, max_len)
          /\ lyric_line' = LJust(lyric_line, max_len)
    /\ pc' = "scan"
    /\ UNCHANGED <<arg_chord, arg_lyric, chord_positions, chord_idx,
                   result_chars, ret>>
    /\ UNCHANGED <<sectionVars, uploadVars, heurVars, matchVars>>

\* Find chords and their positions
Scan ==
    /\ pc = "scan"
    /\ chord_positions' = ScanChords(chord_line)
    /\ pc' = "sort"
    /\ UNCHANGED <<arg_chord, arg_lyric, chord_line, lyric_line, chord_idx,
                   result_chars, ret>>
    /\ UNCHANGED <<sectionVars, uploadVars, heurVars, matchVars>>

\* Sort by position
Sort ==
    /\ pc = "sort"
    /\ chord_positions' = SortPositions(chord_positions)
    /\ pc' = "insert"
    /\ UNCHANGED <<arg_chord, arg_lyric, chord_line, lyric_line, chord_idx,
                   result_chars, ret>>
    /\ UNCHANGED <<sectionVars, uploadVars, heurVars, matchVars>>

\* Insert chords into lyric line
Insert ==
    /\ pc = "insert"
    /\ LET m == MergeLoop(lyric_line, chord_positions, 0,
                          [chord_idx |-> 0, result_chars |-> <<>>,
                           skip_char |-> FALSE])
       IN /\ chord_idx' = m.chord_idx
          /\ result_chars' = m.result_chars
    /\ pc' = "remaining"
    /\ UNCHANGED <<arg_chord, arg_lyric, chord_line, lyric_line,
                   chord_positions, ret>>
    /\ UNCHANGED <<sectionVars, uploadVars, heurVars, matchVars>>

\* Handle any remaining chords at the end
Remaining ==
    /\ pc = "remaining"
    /\ LET m == RemainingLoop([chord_idx |-> chord_idx,
                               result_chars |-> result_chars,
                               skip_char |-> FALSE], chord_positions)
       IN /\ chord_idx' = m.chord_idx
          /\ result_chars' = m.result_chars
    /\ pc' = "return"
    /\ UNCHANGED <<arg_chord, arg_lyric, chord_line, lyric_line,
                   chord_positions, ret>>
    /\ UNCHANGED <<sectionVars, uploadVars, heurVars, matchVars>>

\* return ''.join(result_chars).rstrip()
Return ==
    /\ pc = "return"
    /\ ret' = FinalReturn(result_chars)
    /\ pc' = "done"
    /\ UNCHANGED <<arg_chord, arg_lyric, chord_line, lyric_line,
                   chord_positions, chord_idx, result_chars>>
    /\ UNCHANGED <<sectionVars, uploadVars, heurVars, matchVars>>

NextMerge ==
    \/ ReturnBlank
    \/ Pad
    \/ Scan
    \/ Sort
    \/ Insert
    \/ Remaining
    \/ Return

SpecMerge == InitMerge /\ [][NextMerge]_vars

\* ------------------------------------------------- the segmenter, by steps

\* The chart of the third end-to-end scenario.
scenario_lines ==
    << <<"G", " ", " ", " ", " ", " ", " ", " ", "C">>,
       <<"H", "e", "l", "l", "o", " ", "w", "o", "r", "l", "d">>,
       <<>>,
       <<"P", "l", "a", "i", "n", " ", "t", "e", "x", "t", " ", "l", "i",
         "n", "e">> >>

\* The lines a chart is drawn from: every line of up to MaxLineLen
\* characters, and some longer ones.
SectionAlphabet == {" ", "G", "h"}
LongerLines ==
    { <<"G", " ">>, <<"G", " ", "h">>, <<"h", " ", "h", " ", "G">>,
      <<" ", "h", " ">> }
SectionLines == LinesUpTo(SectionAlphabet, MaxLineLen) \cup LongerLines

\* The charts that are checked: up to MaxLines lines, and the scenario.
SectionInputs ==
    UNION {[1..n -> SectionLines] : n \in 0..MaxLines} \cup {scenario_lines}

InitSection ==
    /\ lines \in SectionInputs
    /\ i = 0
    /\ result = <<>>
    /\ spans = <<>>
    /\ section_pc = "loop"
    /\ MergeIdle
    /\ UploadIdle
    /\ HasChordsIdle
    /\ MatchIdle

\* line = lines[i].rstrip()
CurrentLine == RStrip(lines[i + 1])

\* Skip empty lines
SkipEmpty ==
    /\ section_pc = "loop"
    /\ i < Len(lines)
    /\ CurrentLine = <<>>
    /\ result' = Append(result, <<>>)
    /\ spans' = Append(spans, <<i + 1, 1>>)
    /\ i' = i + 1
    /\ UNCHANGED <<lines, section_pc>>
    /\ UNCHANGED <<mergeVars, uploadVars, heurVars, matchVars>>

\* The current line has chords and the next line has words: the two are
\* merged into one output line.
MergePair ==
    /\ section_pc = "loop"
    /\ i < Len(lines)
    /\ CurrentLine # <<>>
    /\ i + 1 < Len(lines)
    /\ LET next_line == RStrip(lines[i + 2])
       IN /\ IsChordLyricPair(CurrentLine, next_line)
          /\ result' = Append(result, convert_ascii_to_latex(CurrentLine, next_line))
    /\ spans' = Append(spans, <<i + 1, 2>>)
    /\ i' = AfterPair(i)
    /\ UNCHANGED <<lines, section_pc>>
    /\ UNCHANGED <<mergeVars, uploadVars, heurVars, matchVars>>

\* Single line (might be lyrics only)
SingleLine ==
    /\ section_pc = "loop"
    /\ i < Len(lines)
    /\ CurrentLine # <<>>
    /\ ~(i + 1 < Len(lines) /\ IsChordLyricPair(CurrentLine, RStrip(lines[i + 2])))
    /\ result' = Append(result, CurrentLine)
    /\ spans' = Append(spans, <<i + 1, 1>>)
    /\ i' = i + 1
    /\ UNCHANGED <<lines, section_pc>>
    /\ UNCHANGED <<mergeVars, uploadVars, heurVars, matchVars>>

\* return result
ReturnResult ==
    /\ section_pc = "loop"
    /\ ~(i < Len(lines))
    /\ section_pc' = "done"
    /\ UNCHANGED <<lines, i, result, spans>>
    /\ UNCHANGED <<mergeVars, uploadVars, heurVars, matchVars>>

NextSection ==
    \/ SkipEmpty
    \/ MergePair
    \/ SingleLine
    \/ ReturnResult

SpecSection == InitSection /\ [][NextSection]_vars

\* ------------------------------------------------- has_chords, called

\* The lines has_chords is called on: words of chord letters, of the letter
\* m of the minor chords and of a letter of no chord.
HeuristicAlphabet == {" ", "A", "G", "m", "h"}
HeuristicInputs == LinesUpTo(HeuristicAlphabet, MaxHeuristicLen)

InitHasChords ==
    /\ arg_line \in HeuristicInputs
    /\ has_chords_ret = FALSE
    /\ heur_pc = "call"
    /\ MergeIdle
    /\ SectionIdle
    /\ UploadIdle
    /\ MatchIdle

\* The call of has_chords(line) returns.
HasChordsReturn ==
    /\ heur_pc = "call"
    /\ has_chords_ret' = has_chords(arg_line)
    /\ heur_pc' = "done"
    /\ UNCHANGED arg_line
    /\ UNCHANGED <<mergeVars, sectionVars, uploadVars, matchVars>>

NextHasChords == HasChordsReturn

SpecHasChords == InitHasChords /\ [][NextHasChords]_vars

\* --------------------------------------------------- upload-all, by steps

\* max(mtimes)
RECURSIVE SeqMax(_)
SeqMax(q) == IF Len(q) = 1 THEN q[1] ELSE Max(q[1], SeqMax(Tail(q)))

\* The Body file of a unit is <<its modification time>>, or NoBody when
\* body.exists() is false.
NoBody == <<>>

\* latest_mtime(unit_key, tex_files)
latest_mtime(u) ==
    LET mtimes == IF body_mtime[u] # NoBody
                  THEN Append(tex_mtimes[u], body_mtime[u][1])
                  ELSE tex_mtimes[u]
    IN SeqMax(mtimes)

\* "gd:" + id, and uuid.removeprefix("gd:")
Uuid(id) == <<"gd:", id>>
FileId(uuid) == IF uuid[1] = "gd:" THEN uuid[2] ELSE uuid

\* The loop that fills to_upload, from unit u on.
RECURSIVE ToUploadFrom(_, _)
ToUploadFrom(u, mf) ==
    IF u > n_units THEN <<>>
    ELSE (IF u \notin DOMAIN mf THEN <<<<u, "missing">>>>
          ELSE IF latest_mtime(u) > mf[u].uploaded_at THEN <<<<u, "stale">>>>
          ELSE <<>>)
         \o ToUploadFrom(u + 1, mf)

\* What a unit of songs/ and its record can be when the command starts:
\* one or two .tex files, a Body file or none, and no manifest entry or
\* one written at time 1, whose Drive file is still there or is gone.
UnitKinds ==
    [tex : {<<0>>, <<2>>, <<0, 2>>},
     body : {NoBody, <<1>>, <<2>>},
     entry : {"none", "on drive", "gone from drive"}]

\* The ways one round of the upload loop can go: every step succeeds, or
\* one of them raises.
Outcomes ==
    {"ok", "metadata error", "build error", "merge error", "upload error",
     "save error"}

InitUpload ==
    /\ n_units \in 1..MaxUnits
    /\ \E kind \in [1..n_units -> UnitKinds] :
          /\ tex_mtimes = [u \in 1..n_units |-> kind[u].tex]
          /\ body_mtime = [u \in 1..n_units |-> kind[u].body]
          /\ manifest_file =
                [u \in {v \in 1..n_units : kind[v].entry # "none"} |->
                    [uuid |-> Uuid(u), uploaded_at |-> 1]]
          /\ drive = {u \in 1..n_units : kind[u].entry = "on drive"}
    /\ manifest_start = manifest_file
    /\ manifest = <<>>
    /\ to_upload = <<>>
    /\ idx = 0
    /\ failed = <<>>
    /\ attempted = <<>>
    /\ clock = 3
    /\ next_id = n_units + 1
    /\ last_outcome = "none"
    /\ up_pc = "start"
    /\ MergeIdle
    /\ SectionIdle
    /\ HasChordsIdle
    /\ MatchIdle

\* cmd_upload_all up to "Nothing to upload": the manifest is loaded and the
\* missing and stale units are listed in sorted order.
Collect ==
    /\ up_pc = "start"
    /\ manifest' = manifest_file
    /\ to_upload' = ToUploadFrom(1, manifest_file)
    /\ up_pc' = IF to_upload' = <<>> THEN "done" ELSE "setup"
    /\ UNCHANGED <<n_units, tex_mtimes, body_mtime, manifest_file, manifest_start,
                   drive, idx, failed, attempted, clock, next_id, last_outcome>>
    /\ UNCHANGED <<mergeVars, sectionVars, heurVars, matchVars>>

\* setup_latex(): returns, or raises out of the command.
SetupLatex ==
    /\ up_pc = "setup"
    /\ \E raised \in BOOLEAN : up_pc' = IF raised THEN "crashed" ELSE "auth"
    /\ UNCHANGED <<n_units, tex_mtimes, body_mtime, manifest_file, manifest_start,
                   drive, manifest, to_upload, idx, failed, attempted, clock,
                   next_id, last_outcome>>
    /\ UNCHANGED <<mergeVars, sectionVars, heurVars, matchVars>>

\* service = drive_auth(): returns, or raises out of the command.
DriveAuth ==
    /\ up_pc = "auth"
    /\ \E raised \in BOOLEAN : up_pc' = IF raised THEN "crashed" ELSE "loop"
    /\ UNCHANGED <<n_units, tex_mtimes, body_mtime, manifest_file, manifest_start,
                   drive, manifest, to_upload, idx, failed, attempted, clock,
                   next_id, last_outcome>>
    /\ UNCHANGED <<mergeVars, sectionVars, heurVars, matchVars>>

\* upload_to_drive updates the file of existing_uuid when the manifest has
\* one and Drive still has the file; it creates a file if there is no
\* existing_uuid or the update answers 404.
UpdatesExisting(u) == u \in DOMAIN manifest /\ FileId(manifest[u].uuid) \in drive

\* The uuid upload_to_drive returns for unit u.
UploadedUuid(u) == IF UpdatesExisting(u) THEN manifest[u].uuid ELSE Uuid(next_id)

\* Mutant of Uploads: the manifest entry is written although the Drive
\* upload raised.
UploadsThoughUploadRaised(outcome) ==
    outcome \in {"ok", "save error", "upload error"}

\* The steps of upload_unit that an outcome lets succeed.
Uploads(outcome) == outcome \in {"ok", "save error"}

\* One round of the loop: upload_unit and save_manifest for the next entry
\* of to_upload, an exception of either caught and recorded in failed.
UploadNext ==
    /\ up_pc = "loop"
    /\ idx < Len(to_upload)
    /\ LET u == to_upload[idx + 1][1]
       IN \E outcome \in Outcomes :
            /\ attempted' = Append(attempted, u)
            /\ drive' = IF Uploads(outcome) /\ ~UpdatesExisting(u)
                        THEN drive \cup {next_id} ELSE drive
            /\ next_id' = IF Uploads(outcome) /\ ~UpdatesExisting(u)
                          THEN next_id + 1 ELSE next_id
            /\ manifest' =
                  IF Uploads(outcome)
                  THEN [v \in DOMAIN manifest \cup {u} |->
                           IF v = u
                           THEN [uuid |-> UploadedUuid(u), uploaded_at |-> clock]
                           ELSE manifest[v]]
                  ELSE manifest
            /\ manifest_file' = IF outcome = "ok" THEN manifest' ELSE manifest_file
            /\ failed' = IF outcome = "ok" THEN failed ELSE Append(failed, u)
            /\ last_outcome' = outcome
    /\ idx' = idx + 1
    /\ clock' = clock + 1
    /\ UNCHANGED <<n_units, tex_mtimes, body_mtime, manifest_start, to_upload,
                   up_pc>>
    /\ UNCHANGED <<mergeVars, sectionVars, heurVars, matchVars>>

\* The loop is over: the summary is printed.
Finish ==
    /\ up_pc = "loop"
    /\ idx = Len(to_upload)
    /\ up_pc' = "done"
    /\ UNCHANGED <<n_units, tex_mtimes, body_mtime, manifest_file, manifest_start,
                   drive, manifest, to_upload, idx, failed, attempted, clock,
                   next_id, last_outcome>>
    /\ UNCHANGED <<mergeVars, sectionVars, heurVars, matchVars>>

NextUpload ==
    \/ Collect
    \/ SetupLatex
    \/ DriveAuth
    \/ UploadNext
    \/ Finish

SpecUpload == InitUpload /\ [][NextUpload]_vars

\* ------------------------------------------------------ match, by steps

\* None where a string can stand, and the uuid of an entry that has none.
NoneValue == <<"None">>
NoUuid == <<>>

\* s.lower() and s.strip(), on the letters the titles are written with.
Lower(s) ==
    [k \in 1..Len(s) |->
        CASE s[k] = "S" -> "s" [] s[k] = "T" -> "t" [] s[k] = "B" -> "b"
          [] s[k] = "E" -> "e" [] OTHER -> s[k]]
RECURSIVE LStrip(_)
LStrip(s) ==
    IF s # <<>> /\ s[1] \in PyWhitespace THEN LStrip(Tail(s)) ELSE s
Strip(s) == RStrip(LStrip(s))

\* normalize(s): s.lower().strip() if s else ""
normalize(s) == IF s = NoneValue \/ s = <<>> THEN <<>> ELSE Strip(Lower(s))

\* (normalize(title), normalize(artist), normalize(key or ""))
LookupKey(title, artist, key) ==
    <<normalize(title), normalize(artist),
      normalize(IF key = NoneValue THEN <<>> ELSE key)>>

\* The loop that fills drive_by_key, from file k of the list on: a file of
\* the same key as an earlier one takes its place.
RECURSIVE BuildLookupFrom(_, _, _)
BuildLookupFrom(files, k, by_key) ==
    IF k > Len(files) THEN by_key
    ELSE LET f == files[k]
             fk == LookupKey(f.title, f.artist, f.key)
             by_key2 == IF f.title = NoneValue THEN by_key
                        ELSE [x \in DOMAIN by_key \cup {fk} |->
                                 IF x = fk THEN f ELSE by_key[x]]
         IN BuildLookupFrom(files, k + 1, by_key2)

\* Mutant of IsGone: no entry is taken for one whose file is gone.
IsGoneNever(entry, ids) == FALSE

\* file_id and file_id not in drive_ids, for an entry of the manifest.
IsGone(entry, ids) == entry.uuid # NoUuid /\ FileId(entry.uuid) \notin ids

\* The members of a set of units in sorted order.
RECURSIVE SortedUnits(_)
SortedUnits(S) ==
    IF S = {} THEN <<>>
    ELSE LET least == CHOOSE x \in S : \A y \in S : x <= y
         IN <<least>> \o SortedUnits(S \ {least})

\* The title, the artist and the key cmd_match looks unit u up with: the key
\* of the unit's name; title and band of the .tex file, or both of the
\* unit's name when one of them cannot be read.
UnitLookupKey(u) ==
    LET meta == unit_meta[u]
        from_tex == meta.tex_title \notin {NoneValue, <<>>}
                    /\ meta.tex_band \notin {NoneValue, <<>>}
    IN LookupKey(IF from_tex THEN meta.tex_title ELSE meta.name_title,
                 IF from_tex THEN meta.tex_band ELSE meta.name_artist,
                 meta.name_key)

\* The loop over the units, from unit u on. st is the manifest, the list
\* matched and the time now.
RECURSIVE MatchFrom(_, _)
MatchFrom(u, st) ==
    IF u > n_units THEN st
    ELSE IF u \in DOMAIN st.manifest THEN MatchFrom(u + 1, st)
    ELSE IF UnitLookupKey(u) \in DOMAIN drive_by_key
         THEN LET f == drive_by_key[UnitLookupKey(u)]
                  entry == [uuid |-> Uuid(f.id), uploaded_at |-> st.clock]
              IN MatchFrom(u + 1,
                     [manifest |-> [v \in DOMAIN st.manifest \cup {u} |->
                                       IF v = u THEN entry ELSE st.manifest[v]],
                      matched |-> Append(st.matched, <<u, Uuid(f.id)>>),
                      clock |-> st.clock + 1])
         ELSE MatchFrom(u + 1, st)

\* What cmd_match reads of a unit: a .tex file without a title and a name
\* "B/S"; a .tex file of title "s " and band "b" and a name with key E; a
\* .tex file of a title no Drive file has.
UnitMetas ==
    {[tex_title |-> NoneValue, tex_band |-> <<"B">>,
      name_title |-> <<"S">>, name_artist |-> <<"B">>, name_key |-> NoneValue],
     [tex_title |-> <<"s", " ">>, tex_band |-> <<"b">>,
      name_title |-> <<"S">>, name_artist |-> <<"B">>, name_key |-> <<"E">>],
     [tex_title |-> <<"T">>, tex_band |-> <<"B">>,
      name_title |-> <<"T">>, name_artist |-> <<"B">>, name_key |-> NoneValue]}

\* What list_drive_files makes of a file name: one it cannot parse, "S" by
\* "B" without a key, "S" by "B" in E.
DriveFileKinds ==
    {[title |-> NoneValue, artist |-> NoneValue, key |-> NoneValue],
     [title |-> <<"S">>, artist |-> <<"B">>, key |-> NoneValue],
     [title |-> <<"S">>, artist |-> <<"B">>, key |-> <<"E">>]}

\* The manifest entry of a unit when the command starts: none, one without
\* uuid, one of the first listed file's id (gone if nothing is listed), one
\* of a file that is not in the folder any more.
EntryKinds == {"none", "no uuid", "first file", "deleted file"}
DeletedId == MaxDriveFiles + 1
EntryOf(kind) ==
    [uuid |-> CASE kind = "no uuid" -> NoUuid
                [] kind = "first file" -> Uuid(1)
                [] OTHER -> Uuid(DeletedId),
     uploaded_at |-> 1]

InitMatch ==
    /\ n_units \in 1..MaxUnits
    /\ unit_meta \in [1..n_units -> UnitMetas]
    /\ \E n_files \in 0..MaxDriveFiles :
          \E kind \in [1..n_files -> DriveFileKinds] :
              drive_files = [k \in 1..n_files |->
                               [id |-> k, title |-> kind[k].title,
                                artist |-> kind[k].artist, key |-> kind[k].key]]
    /\ drive = {drive_files[k].id : k \in 1..Len(drive_files)}
    /\ \E kind \in [1..n_units -> EntryKinds] :
          manifest_file = [u \in {v \in 1..n_units : kind[v] # "none"} |->
                              EntryOf(kind[u])]
    /\ manifest_start = manifest_file
    /\ manifest = <<>>
    /\ clock = 3
    /\ drive_by_key = <<>> /\ drive_ids = {}
    /\ stale_manifest = <<>> /\ matched = <<>>
    /\ match_pc = "start"
    /\ tex_mtimes = <<>> /\ body_mtime = <<>> /\ to_upload = <<>> /\ idx = 0
    /\ failed = <<>> /\ attempted = <<>> /\ next_id = 0
    /\ last_outcome = "none" /\ up_pc = "idle"
    /\ MergeIdle
    /\ SectionIdle
    /\ HasChordsIdle

\* units, manifest and the Drive listing are read; drive_auth or the
\* listing raises out of the command, or returns.
FetchListing ==
    /\ match_pc = "start"
    /\ manifest' = manifest_file
    /\ \E raised \in BOOLEAN : match_pc' = IF raised THEN "crashed" ELSE "lookup"
    /\ UNCHANGED <<unit_meta, drive_files, drive_by_key, drive_ids,
                   stale_manifest, matched>>
    /\ UNCHANGED <<n_units, tex_mtimes, body_mtime, manifest_file, manifest_start,
                   drive, to_upload, idx, failed, attempted, clock, next_id,
                   last_outcome, up_pc>>
    /\ UNCHANGED <<mergeVars, sectionVars, heurVars>>

\* Build lookup, and the set of Drive file IDs that actually exist.
BuildLookup ==
    /\ match_pc = "lookup"
    /\ drive_by_key' = BuildLookupFrom(drive_files, 1, <<>>)
    /\ drive_ids' = {drive_files[k].id : k \in 1..Len(drive_files)}
    /\ match_pc' = "prune"
    /\ UNCHANGED <<unit_meta, drive_files, stale_manifest, matched>>
    /\ UNCHANGED uploadVars
    /\ UNCHANGED <<mergeVars, sectionVars, heurVars>>

\* Check existing manifest entries: those whose Drive file is gone are
\* listed in stale_manifest and deleted from the manifest.
PruneStale ==
    /\ match_pc = "prune"
    /\ LET gone == {u \in DOMAIN manifest : IsGone(manifest[u], drive_ids)}
       IN /\ stale_manifest' = SortedUnits(gone)
          /\ manifest' = [u \in DOMAIN manifest \ gone |-> manifest[u]]
    /\ match_pc' = "match"
    /\ UNCHANGED <<unit_meta, drive_files, drive_by_key, drive_ids, matched>>
    /\ UNCHANGED <<n_units, tex_mtimes, body_mtime, manifest_file, manifest_start,
                   drive, to_upload, idx, failed, attempted, clock, next_id,
                   last_outcome, up_pc>>
    /\ UNCHANGED <<mergeVars, sectionVars, heurVars>>

\* The loop over the units: a unit that is not in the manifest gets the
\* entry of the Drive file of its title, artist and key, if there is one.
MatchUnits ==
    /\ match_pc = "match"
    /\ LET st == MatchFrom(1, [manifest |-> manifest, matched |-> <<>>,
                               clock |-> clock])
       IN /\ manifest' = st.manifest
          /\ matched' = st.matched
          /\ clock' = st.clock
    /\ match_pc' = "save"
    /\ UNCHANGED <<unit_meta, drive_files, drive_by_key, drive_ids,
                   stale_manifest>>
    /\ UNCHANGED <<n_units, tex_mtimes, body_mtime, manifest_file, manifest_start,
                   drive, to_upload, idx, failed, attempted, next_id,
                   last_outcome, up_pc>>
    /\ UNCHANGED <<mergeVars, sectionVars, heurVars>>

\* if stale_manifest or matched: save_manifest(manifest)
SaveMatched ==
    /\ match_pc = "save"
    /\ manifest_file' = IF stale_manifest # <<>> \/ matched # <<>>
                        THEN manifest ELSE manifest_file
    /\ match_pc' = "done"
    /\ UNCHANGED <<unit_meta, drive_files, drive_by_key, drive_ids,
                   stale_manifest, matched>>
    /\ UNCHANGED <<n_units, tex_mtimes, body_mtime, manifest_start,
                   drive, manifest, to_upload, idx, failed, attempted, clock,
                   next_id, last_outcome, up_pc>>
    /\ UNCHANGED <<mergeVars, sectionVars, heurVars>>

NextMatch ==
    \/ FetchListing
    \/ BuildLookup
    \/ PruneStale
    \/ MatchUnits
    \/ SaveMatched

SpecMatch == InitMatch /\ [][NextMatch]_vars

\* ------------------------------------------- properties of the merger

\* The call took the non-blank path and has returned.
MergedDone == pc = "done" /\ ~IsBlank(arg_chord) /\ ~IsBlank(arg_lyric)

\* The pieces of result_chars that are chord markers (a lyric character is
\* a piece of length 1), and the piece of the j-th chord inserted.
MarkerPieces == {k \in 1..Len(result_chars) : Len(result_chars[k]) > 1}
PieceOf(j) ==
    CHOOSE k \in MarkerPieces : Cardinality({k2 \in MarkerPieces : k2 < k}) = j - 1

\* The number of characters joined before piece k.
PieceOffset(k) == Len(Join(SubSeq(result_chars, 1, k - 1)))

\* Where the marker ^{text} of the j-th chord starts and ends in the joined
\* pieces (and so in the returned line, which is a prefix of them).
MarkerStart(j) ==
    LET k == PieceOf(j)
    IN PieceOffset(k) + (IF result_chars[k][1] = "^" THEN 1 ELSE 2)
MarkerEnd(j) == MarkerStart(j) + Len(chord_positions[j][2]) + 2

\* Column and text of the j-th chord, and the lyric character under it.
ColOf(j) == chord_positions[j][1]
TextOf(j) == chord_positions[j][2]
LyricAt(c) == lyric_line[c + 1]

\* Every chord has its piece, and the returned line holds its marker.
MarkersPresent ==
    MergedDone =>
        /\ Cardinality(MarkerPieces) = Len(chord_positions)
        /\ \A j \in 1..Len(chord_positions) :
              /\ MarkerEnd(j) <= Len(ret)
              /\ SubSeq(ret, MarkerStart(j), MarkerEnd(j)) = MarkerBare(TextOf(j))

\* The chords that land on a space or a tab of the padded lyric line.
OnSpace == {j \in 1..Len(chord_positions) : LyricAt(ColOf(j)) \in SpaceOrTab}

\* The chords that land on a character that is no whitespace.
OnWord == {j \in 1..Len(chord_positions) : LyricAt(ColOf(j)) \notin PyWhitespace}

\* C1 as stated: a chord that lands on a space or a tab of the padded lyric
\* line has exactly one space immediately before its marker and exactly one
\* immediately after it, never more, whatever whitespace the lyric line
\* has next to that column.
C1_ExactlyOneSpaceEachSide ==
    MergedDone =>
        \A j \in OnSpace :
            LET s == MarkerStart(j)
                e == MarkerEnd(j)
            IN /\ s >= 2 /\ ret[s - 1] = " "
               /\ s >= 3 => ret[s - 2] \notin SpaceOrTab
               /\ e + 1 <= Len(ret) /\ ret[e + 1] = " "
               /\ e + 2 <= Len(ret) => ret[e + 2] \notin SpaceOrTab

\* C1 amended: a chord that lands on a space or a tab at column c is
\* rendered as ' ^{text} ' in place of that one character: a space stands
\* immediately before the marker and, unless the marker ends the returned
\* line, immediately after it; next to these two spaces stand the lyric
\* characters of columns c-1 and c+1 as they are, whitespace included.
C1_SpacedMarkerReplacesColumn ==
    MergedDone =>
        \A j \in OnSpace :
            LET s == MarkerStart(j)
                e == MarkerEnd(j)
                c == ColOf(j)
            IN /\ s >= 2 /\ ret[s - 1] = " "
               /\ SubSeq(ret, s, e) = <<"^", "{">> \o TextOf(j) \o <<"}">>
               /\ e = Len(ret) \/ ret[e + 1] = " "
               /\ c >= 1 => s >= 3 /\ ret[s - 2] = LyricAt(c - 1)
               /\ c = 0 => s = 2
               /\ e + 2 <= Len(ret) => ret[e + 2] = LyricAt(c + 1)

\* A chord landed on a whitespace column that has whitespace before it, and
\* the returned line has two whitespace characters before the marker.
C1_Witness ==
    /\ MergedDone
    /\ \E j \in OnSpace :
          /\ ColOf(j) >= 1
          /\ LyricAt(ColOf(j) - 1) \in SpaceOrTab
          /\ ret[MarkerStart(j) - 2] \in SpaceOrTab
          /\ ret[MarkerStart(j) - 1] = " "

\* C2: a chord that lands on a non-whitespace character of column c is
\* rendered as the marker ^{text} immediately followed by that character,
\* with nothing between them.
C2_MarkerTouchesCharacter ==
    MergedDone =>
        \A j \in OnWord :
            LET s == MarkerStart(j)
                e == MarkerEnd(j)
            IN /\ SubSeq(ret, s, e) = <<"^", "{">> \o TextOf(j) \o <<"}">>
               /\ e + 1 <= Len(ret)
               /\ ret[e + 1] = LyricAt(ColOf(j))
               /\ result_chars[PieceOf(j) + 1] = <<LyricAt(ColOf(j))>>

\* A chord landed inside a word: the column before it holds a letter too.
C2_Witness ==
    /\ MergedDone
    /\ \E j \in OnWord :
          /\ ColOf(j) >= 1
          /\ LyricAt(ColOf(j) - 1) \notin PyWhitespace
          /\ ret[MarkerEnd(j) + 1] = "a"

\* C3 as stated: with a blank chord line the call returns the lyric line
\* with its trailing whitespace removed.
C3_BlankChordTrimsLyric ==
    pc = "done" /\ IsBlank(arg_chord) => ret = RStrip(arg_lyric)

\* C3 amended: with an empty or all-whitespace chord line the call returns
\* the lyric line unchanged, trailing whitespace included.
C3_BlankChordReturnsLyricUnchanged ==
    pc = "done" /\ IsBlank(arg_chord) => ret = arg_lyric

\* A blank chord line over a lyric line with words and trailing whitespace.
C3_Witness ==
    /\ pc = "done"
    /\ IsBlank(arg_chord)
    /\ ~IsBlank(arg_lyric)
    /\ RStrip(arg_lyric) # arg_lyric
    /\ ret = arg_lyric

\* C4 as stated: with a non-blank chord line and an empty lyric line the
\* call returns the chord line.
C4_EmptyLyricReturnsChord ==
    pc = "done" /\ ~IsBlank(arg_chord) /\ arg_lyric = <<>> => ret = arg_chord

\* C4 amended: with a non-blank chord line and an empty lyric line the call
\* returns the empty lyric line; the chord text is dropped.
C4_EmptyLyricReturnsEmpty ==
    pc = "done" /\ ~IsBlank(arg_chord) /\ arg_lyric = <<>> =>
        ret = <<>> /\ ret # arg_chord

\* A chord line with a chord in it over the empty lyric line.
C4_Witness ==
    /\ pc = "done"
    /\ arg_lyric = <<>>
    /\ ScanChords(arg_chord) # <<>>
    /\ ret = <<>>

\* s holds t at offset p (p characters before it).
HasAt(s, p, t) == p + Len(t) <= Len(s) /\ SubSeq(s, p + 1, p + Len(t)) = t
Has(s, t) == \E p \in 0..Len(s) : HasAt(s, p, t)

\* The call is the sample call, and it has returned.
SampleDone ==
    pc = "done" /\ arg_chord = sample_chord_line /\ arg_lyric = sample_lyric_line

marker_Gm_Slow ==
    <<"^", "{", "G", "m", "}", "S", "l", "o", "w">>
marker_Bb_crazy ==
    <<"^", "{", "B", "b", "}", "c", "r", "a", "z", "y">>
sample_output ==
    <<" ", "^", "{", "G", "m", "}", " ", " ", " ", "S", "l", "o", "w", " ",
    "d", "o", "w", "n", " ", "y", "o", "u", " ", "^", "{", "B", "b", "}",
    "c", "r", "a", "z", "y", " ", "c", "h", "i", "l", "d">>

\* C5 as stated: the output of the sample call starts with ^{Gm}, which
\* stands immediately before Slow, and ^{Bb} stands before crazy.
C5_SampleStartsWithMarkerBeforeSlow ==
    SampleDone => HasAt(ret, 0, marker_Gm_Slow) /\ Has(ret, marker_Bb_crazy)

\* C5 amended: the output of the sample call is
\* ' ^{Gm}   Slow down you ^{Bb}crazy child': one space, ^{Gm}, three spaces
\* (the one after the marker and the lyric's columns 1 and 2), Slow, and
\* ^{Bb} immediately before crazy.
C5_SampleOutput == SampleDone => ret = sample_output

\* The sample call has returned with both markers in its output.
C5_Witness ==
    SampleDone /\ Len(chord_positions) = 2 /\ Has(ret, marker_Bb_crazy)

\* C6: the tokens of the scan have non-empty texts without space or tab,
\* which are the chord line's characters from their start column on; each
\* starts at least one column after the last character of the one before,
\* so the start columns increase strictly and the sort reorders nothing.
C6_ScanTokensSeparated ==
    pc \in {"sort", "insert", "remaining", "return"} =>
        /\ \A j \in 1..Len(chord_positions) :
              /\ TextOf(j) # <<>>
              /\ \A k \in 1..Len(TextOf(j)) : TextOf(j)[k] \notin SpaceOrTab
              /\ ColOf(j) >= 0
              /\ HasAt(chord_line, ColOf(j), TextOf(j))
        /\ \A j \in 1..(Len(chord_positions) - 1) :
              /\ ColOf(j + 1) > ColOf(j)
              /\ ColOf(j + 1) >= ColOf(j) + Len(TextOf(j)) + 1
              /\ chord_line[ColOf(j) + Len(TextOf(j)) + 1] \in SpaceOrTab
        /\ pc # "sort" => chord_positions = ScanChords(chord_line)

\* The scan emitted two tokens, the first of more than one character, and
\* the list has been sorted.
C6_Witness ==
    /\ pc = "insert"
    /\ Len(chord_positions) >= 2
    /\ Len(TextOf(1)) >= 2

\* The chords that start at or beyond the end of the lyric line as given
\* (they are the last ones of the list), and the first of them.
TailChords == {j \in 1..Len(chord_positions) : ColOf(j) >= Len(arg_lyric)}
FirstTail == CHOOSE j \in TailChords : \A j2 \in TailChords : j <= j2

\* The call with a chord line longer than the lyric line has returned, and
\* some chord starts beyond the lyric.
TailDone == MergedDone /\ Len(arg_chord) > Len(arg_lyric) /\ TailChords # {}

\* C10 as stated: the chords beyond the end of the lyric end the output,
\* each as one space followed by ^{text}, in scan order.
C10_TailChordsOneSpaceEach ==
    TailDone =>
        LET n == Len(chord_positions)
            tail == Join([t \in 1..(n - FirstTail + 1) |->
                             <<" ", "^", "{">> \o TextOf(FirstTail + t - 1) \o <<"}">>])
        IN Len(tail) <= Len(ret) /\ HasAt(ret, Len(ret) - Len(tail), tail)

\* C10 amended: the chords beyond the end of the lyric stand after all
\* lyric text, in scan order, each rendered as ' ^{text} ' in place of its
\* padding column: a space stands immediately before each marker, the last
\* marker ends the output, and between two of them stand the spaces of the
\* padding columns between their start columns and the two emitted ones,
\* that is (difference of the start columns) + 1 spaces, never exactly one.
C10_TailChordsAfterLyric ==
    TailDone =>
        LET n == Len(chord_positions)
        IN /\ \A j \in TailChords :
                 /\ MarkerStart(j) >= 2
                 /\ ret[MarkerStart(j) - 1] = " "
                 /\ HasAt(ret, MarkerStart(j) - 1,
                          <<"^", "{">> \o TextOf(j) \o <<"}">>)
           /\ MarkerEnd(n) = Len(ret)
           /\ \A j \in TailChords \ {n} :
                 /\ MarkerStart(j + 1) - MarkerEnd(j) - 1 = ColOf(j + 1) - ColOf(j) + 1
                 /\ \A p \in (MarkerEnd(j) + 1)..(MarkerStart(j + 1) - 1) : ret[p] = " "
           /\ \A k \in (PieceOf(FirstTail) + 1)..Len(result_chars) :
                 k \in MarkerPieces \/ result_chars[k] = <<" ">>

\* Two chords start beyond the end of a lyric line that has a word.
C10_Witness ==
    /\ TailDone
    /\ Cardinality(TailChords) >= 2
    /\ \E k \in 1..Len(arg_lyric) : arg_lyric[k] = "a"
    /\ MarkerEnd(Len(chord_positions)) = Len(ret)

\* The pieces of result_chars that are lyric characters, the columns of the
\* padded lyric line whose character is copied (all but those where a chord
\* landed on a space or a tab), and the n-th member of a set of numbers.
LyricPieces == {k \in 1..Len(result_chars) : Len(result_chars[k]) = 1}
KeptColumns ==
    {c \in 0..(Len(lyric_line) - 1) : ~\E j \in OnSpace : ColOf(j) = c}
Nth(S, n) == CHOOSE x \in S : Cardinality({y \in S : y < x}) = n - 1

\* C11: for non-blank inputs the returned line is an order-preserving
\* interleaving of the lyric line and the chords. There is exactly one
\* marker per scanned chord, the j-th marker holding the j-th chord of the
\* scan; the marker of the chord of column c stands after every copied
\* lyric character of a column below c and before every lyric character of
\* column c or above; the lyric characters that are not copied are only
\* spaces and tabs of columns where a chord landed, and whitespace that
\* ends the joined line; every other character of the lyric line, all
\* its non-whitespace characters included, is there once, in its order.
C11_OrderPreservingInterleaving ==
    MergedDone =>
        /\ SubSeq(lyric_line, 1, Len(arg_lyric)) = arg_lyric
        /\ Cardinality(MarkerPieces) = Len(chord_positions)
        /\ \A j \in 1..Len(chord_positions) :
              /\ result_chars[PieceOf(j)] \in
                    {MarkerBare(TextOf(j)), MarkerSpaced(TextOf(j))}
              /\ Cardinality({k \in LyricPieces : k < PieceOf(j)})
                    = Cardinality({c \in KeptColumns : c < ColOf(j)})
              /\ j > 1 => ColOf(j - 1) < ColOf(j)
        /\ \A c \in 0..(Len(lyric_line) - 1) :
              c \notin KeptColumns => LyricAt(c) \in SpaceOrTab
        /\ Cardinality(LyricPieces) = Cardinality(KeptColumns)
        /\ \A n \in 1..Cardinality(KeptColumns) :
              result_chars[Nth(LyricPieces, n)] = <<LyricAt(Nth(KeptColumns, n))>>
        /\ LET joined == Join(result_chars)
           IN /\ Len(ret) <= Len(joined)
              /\ ret = SubSeq(joined, 1, Len(ret))
              /\ \A p \in (Len(ret) + 1)..Len(joined) : joined[p] \in PyWhitespace
              /\ \A j \in 1..Len(chord_positions) : MarkerEnd(j) <= Len(ret)

\* A chord on a space of the lyric line, then a chord on a letter of it:
\* the space is dropped, the letter is kept after its marker.
C11_Witness ==
    /\ MergedDone
    /\ \E j \in OnSpace : \E j2 \in OnWord :
          /\ j < j2
          /\ ColOf(j2) < Len(arg_lyric)
          /\ Cardinality(KeptColumns) < Len(lyric_line)
          /\ ret[MarkerEnd(j2) + 1] = LyricAt(ColOf(j2))

\* C12: both lines are padded to the same length, so the column of every
\* chord is a column of the padded lyric line; when the loop over the
\* columns has ended every chord has been taken (chord_idx is the number of
\* chords), and the loop over the remaining chords adds nothing to
\* result_chars: no piece ' ^{text}' is ever in it.
C12_RemainingLoopEmitsNothing ==
    /\ pc \in {"scan", "sort", "insert", "remaining", "return"} =>
          Len(chord_line) = Len(lyric_line)
    /\ pc \in {"insert", "remaining", "return"} =>
          \A j \in 1..Len(chord_positions) : ColOf(j) < Len(lyric_line)
    /\ pc = "remaining" =>
          /\ chord_idx = Len(chord_positions)
          /\ RemainingLoop([chord_idx |-> chord_idx,
                            result_chars |-> result_chars,
                            skip_char |-> FALSE],
                           chord_positions).result_chars = result_chars
    /\ pc \in {"return", "done"} =>
          /\ chord_idx = Len(chord_positions)
          /\ \A k \in 1..Len(result_chars) :
                \A j \in 1..Len(chord_positions) :
                    result_chars[k] # MarkerLead(TextOf(j))

\* The loop over the columns has ended for a chord line longer than the
\* lyric line, with two chords beyond the end of the lyric line.
C12_Witness ==
    /\ pc = "remaining"
    /\ Len(arg_chord) > Len(arg_lyric)
    /\ Cardinality({j \in 1..Len(chord_positions) : ColOf(j) >= Len(arg_lyric)}) >= 2
    /\ chord_idx = Len(chord_positions)

\* ---------------------------------------- properties of the segmenter

\* Line k of the chart as the segmenter reads it, and whether it is a
\* chord-candidate line.
Trimmed(k) == RStrip(lines[k])
Candidate(k) == has_chords(Trimmed(k))

\* C7: a pair of lines is merged only if the first is a chord candidate and
\* the second is non-blank and no chord candidate, so two chord-candidate
\* lines in a row are never merged with each other; the first of two
\* such lines is an output line of its own.
C7_NoMergeOfTwoCandidates ==
    /\ \A k \in 1..Len(spans) :
          spans[k][2] = 2 =>
              /\ Candidate(spans[k][1])
              /\ Trimmed(spans[k][1] + 1) # <<>>
              /\ ~Candidate(spans[k][1] + 1)
    /\ section_pc = "done" =>
          \A n \in 1..(Len(lines) - 1) :
              Candidate(n) /\ Candidate(n + 1) =>
                  \E k \in 1..Len(spans) :
                      spans[k] = <<n, 1>> /\ result[k] = Trimmed(n)

\* Two chord-candidate lines in a row and then a lyric line: the first is
\* passed through, the second is merged with the lyric line.
C7_Witness ==
    /\ section_pc = "done"
    /\ Len(lines) = 3
    /\ Candidate(1) /\ Candidate(2) /\ ~Candidate(3)
    /\ spans = <<<<1, 1>>, <<2, 2>>>>
    /\ result[1] = Trimmed(1)
    /\ result[2] # Trimmed(2)

\* The number of merged pairs.
MergedPairs == Cardinality({k \in 1..Len(spans) : spans[k][2] = 2})

\* C8: the output lines cover the input lines in order, each input line
\* once, alone or as half of a merged pair, so the output has as many lines
\* as the input less the merged pairs; a line alone gives itself trimmed, a
\* pair gives its merge; the scenario's four lines give three.
C8_EveryLineConsumedOnce ==
    section_pc = "done" =>
        /\ Len(result) = Len(spans)
        /\ Len(result) = Len(lines) - MergedPairs
        /\ \A k \in 1..Len(spans) :
              /\ spans[k][2] \in {1, 2}
              /\ spans[k][1] = (IF k = 1 THEN 1 ELSE spans[k - 1][1] + spans[k - 1][2])
              /\ spans[k][1] + spans[k][2] - 1 <= Len(lines)
              /\ k = Len(spans) => spans[k][1] + spans[k][2] - 1 = Len(lines)
              /\ spans[k][2] = 1 => result[k] = Trimmed(spans[k][1])
              /\ spans[k][2] = 2 =>
                    result[k] = convert_ascii_to_latex(Trimmed(spans[k][1]),
                                                       Trimmed(spans[k][1] + 1))
        /\ (spans = <<>>) = (lines = <<>>)
        /\ lines = scenario_lines =>
              /\ Len(result) = 3
              /\ spans[1] = <<1, 2>>
              /\ result[2] = <<>>
              /\ result[3] = lines[4]

\* The scenario's chart has been processed: a merged line, an empty line
\* and the plain line.
C8_Witness ==
    /\ section_pc = "done"
    /\ lines = scenario_lines
    /\ Len(result) = 3
    /\ Has(result[1], <<"^", "{", "G", "}", "H", "e", "l", "l", "o">>)

\* ---------------------------------------- properties of the heuristic

\* The words of a line that hold an uppercase letter A..G somewhere.
UpperAToG == {"A", "B", "C", "D", "E", "F", "G"}
WordsWithUpperAToG(line) ==
    LET words == Split(line)
    IN {k \in 1..Len(words) : \E p \in 1..Len(words[k]) : words[k][p] \in UpperAToG}

\* C13: has_chords returns for every line what the simpler test returns:
\* the number of whitespace-separated words that hold an uppercase letter
\* A..G somewhere is positive and at least half the number of words. The
\* two-letter chords Am..Gm of common_chords change nothing.
C13_HasChordsIsUpperAToGCount ==
    heur_pc = "done" =>
        has_chords_ret =
            (/\ Cardinality(WordsWithUpperAToG(arg_line)) > 0
             /\ 2 * Cardinality(WordsWithUpperAToG(arg_line)) >= Len(Split(arg_line)))

\* has_chords has returned True for a line of two words, one that holds Am
\* and one that holds no chord letter.
C13_Witness ==
    /\ heur_pc = "done"
    /\ has_chords_ret
    /\ Len(Split(arg_line)) = 2
    /\ \E k \in 1..2 : Contains(Split(arg_line)[k], <<"A", "m">>)
    /\ Cardinality(WordsWithUpperAToG(arg_line)) = 1

\* ----------------------------------------- properties of upload-all

\* The units upload_unit was called for.
Attempted == {attempted[k] : k \in 1..Len(attempted)}

\* When the command started: the unit had a manifest entry; its Drive
\* file was in the folder (the run adds files to Drive, it removes none);
\* one of its sources, Body file included, was modified after the recorded
\* upload time.
HadEntry(u) == u \in DOMAIN manifest_start
WasOnDrive(u) == HadEntry(u) /\ FileId(manifest_start[u].uuid) \in drive
WasStale(u) ==
    /\ HadEntry(u)
    /\ \/ \E k \in 1..Len(tex_mtimes[u]) :
             tex_mtimes[u][k] > manifest_start[u].uploaded_at
       \/ body_mtime[u] # NoBody /\ body_mtime[u][1] > manifest_start[u].uploaded_at

\* C9: when a run of upload-all is over, upload_unit has been called for
\* every unit that was missing from Drive or stale.
C9_AttemptsMissingFromDriveOrStale ==
    up_pc = "done" =>
        \A u \in 1..n_units : ~WasOnDrive(u) \/ WasStale(u) => u \in Attempted

\* What the code does instead: a run that gets past setup_latex and
\* drive_auth calls upload_unit, in sorted order and once each, for the
\* units that had no manifest entry or were stale, and for no other.
UploadAllAttemptsManifestDue ==
    up_pc = "done" =>
        /\ \A u \in 1..n_units : (~HadEntry(u) \/ WasStale(u)) <=> u \in Attempted
        /\ \A k \in 1..(Len(attempted) - 1) : attempted[k] < attempted[k + 1]

\* The outcomes in which a step of upload_unit before the manifest write
\* raises: the metadata read, a PDF build, the merge, the Drive upload.
StepRaised ==
    {"metadata error", "build error", "merge error", "upload error"}

\* C14: in every round of the upload loop, for the unit u it takes: if the
\* metadata read, a PDF build, the merge or the Drive upload raises, the
\* manifest (the dict and manifest.json, the entry of u included) is left
\* as it was and u is recorded in failed; the entry of u is written only
\* when all of these steps succeeded, with the uuid of a file that is on
\* Drive and the time of the round, no other entry changing; after a round
\* in which nothing raised manifest.json is the dict with that entry; and
\* the loop goes on to the next unit whatever happened, ending only when
\* upload_unit has been called for every unit of to_upload.
C14_EntryWrittenOnlyAfterUpload ==
    [][/\ idx' = idx + 1 =>
            LET u == to_upload[idx + 1][1]
            IN /\ attempted' = Append(attempted, u)
               /\ up_pc' = "loop"
               /\ last_outcome' \in StepRaised =>
                     /\ manifest' = manifest
                     /\ manifest_file' = manifest_file
                     /\ failed' = Append(failed, u)
               /\ manifest' # manifest =>
                     /\ last_outcome' \notin StepRaised
                     /\ DOMAIN manifest' = DOMAIN manifest \cup {u}
                     /\ \A v \in DOMAIN manifest \ {u} : manifest'[v] = manifest[v]
                     /\ FileId(manifest'[u].uuid) \in drive'
                     /\ manifest'[u].uploaded_at = clock
               /\ last_outcome' = "ok" =>
                     /\ manifest' # manifest
                     /\ manifest_file' = manifest'
                     /\ failed' = failed
       /\ up_pc = "loop" /\ up_pc' = "done" =>
            /\ Len(attempted) = Len(to_upload)
            /\ \A k \in 1..Len(to_upload) : attempted[k] = to_upload[k][1]
      ]_vars

\* A run of two rounds is over: a step of upload_unit raised for the first
\* unit, whose record in manifest.json is as it was at the start, and the
\* second unit was uploaded and its entry saved.
C14_Witness ==
    /\ up_pc = "done"
    /\ Len(attempted) = 2
    /\ failed = <<attempted[1]>>
    /\ manifest = [v \in DOMAIN manifest_file |-> manifest_file[v]]
    /\ attempted[1] \in DOMAIN manifest_start
    /\ manifest_file[attempted[1]] = manifest_start[attempted[1]]
    /\ last_outcome = "ok"
    /\ manifest_file[attempted[2]].uploaded_at = clock - 1

\* ------------------------------------------------- properties of match

\* The ids of the Drive listing the run fetched, and the entries the
\* manifest had at the start whose file is not among them.
ListedIds == {drive_files[k].id : k \in 1..Len(drive_files)}
GoneAtStart ==
    {u \in DOMAIN manifest_start :
        manifest_start[u].uuid # NoUuid
        /\ FileId(manifest_start[u].uuid) \notin ListedIds}

\* C15: when cmd_match is over, every entry of the manifest (of the dict
\* and of manifest.json, which are the same) that has a uuid names a file
\* of the Drive listing the run fetched: an entry that was there at the
\* start and whose file is not listed is not there any more; an entry
\* that was there at the start and is not of these is as it was; every
\* other entry is new and has the uuid of a listed file, one of the
\* title, artist and key of its unit.
C15_EntriesNameListedFiles ==
    match_pc = "done" =>
        /\ DOMAIN manifest_file = DOMAIN manifest
        /\ \A u \in DOMAIN manifest : manifest_file[u] = manifest[u]
        /\ \A u \in DOMAIN manifest :
              manifest[u].uuid # NoUuid => FileId(manifest[u].uuid) \in ListedIds
        /\ \A u \in GoneAtStart :
              u \notin DOMAIN manifest \/ manifest[u] # manifest_start[u]
        /\ \A u \in DOMAIN manifest_start \ GoneAtStart :
              u \in DOMAIN manifest /\ manifest[u] = manifest_start[u]
        /\ \A u \in DOMAIN manifest :
              u \notin DOMAIN manifest_start \ GoneAtStart =>
                  \E k \in 1..Len(drive_files) :
                      /\ manifest[u].uuid = Uuid(drive_files[k].id)
                      /\ drive_files[k].title # NoneValue
                      /\ LookupKey(drive_files[k].title, drive_files[k].artist,
                                   drive_files[k].key) = UnitLookupKey(u)

\* cmd_match is over for two units that both had an entry: the file of the
\* one was gone and the unit has the uuid of a listed file now, the other
\* has the entry it had.
C15_Witness ==
    /\ match_pc = "done"
    /\ \E u \in GoneAtStart : \E v \in DOMAIN manifest_start \ GoneAtStart :
          /\ u \in DOMAIN manifest_file
          /\ FileId(manifest_file[u].uuid) \in ListedIds
          /\ manifest_start[v].uuid # NoUuid
          /\ manifest_file[v] = manifest_start[v]

====
